---- MODULE Spec2Model ----
(***************************************************************************)
(* A model of tgreports (src/tgreports/main.py): the payload normalizer    *)
(* (to_json, dump), the Loguru sink configuration of the Report class      *)
(* (_configure_logger) and the severity-named entry points with the        *)
(* message composer and dispatcher (_report).                              *)
(*                                                                         *)
(* Strings are TLA+ strings, handled character by character with Len,      *)
(* SubSeq and \o, so that slicing, splitting, joining, JSON encoding and   *)
(* JSON decoding are computed, not assumed.                                *)
(*                                                                         *)
(* A Python value is a record [t |-> type, v |-> content]:                 *)
(*   none, str, int, bool, list, tuple, dict (a sequence of <<key, value>> *)
(*   pairs in insertion order, keys being strings) and object (a value     *)
(*   json.dumps rejects, such as an exception or a set; v is its str()).   *)
(***************************************************************************)
EXTENDS Integers, Sequences, FiniteSets, TLC

VARIABLES
    mode,           \* Report.mode
    pc,             \* position of the one call in flight
    call,           \* the arguments of the call in flight
    locals,         \* _report's locals that live across its awaits
    events,         \* the call's sink writes and transport invocations, in order
    handlers,       \* Loguru's registered handlers (logger._core.handlers)
    nextId,         \* Loguru's handler id counter
    sinkState,      \* Report._log_sink_id, _err_sink_id, _log_path, _err_path
    sinkOps,        \* the logger.remove / logger.add calls of the last construction
    probe           \* argument and result of the pure function under check

vars == <<mode, pc, call, locals, events, handlers, nextId, sinkState, sinkOps, probe>>

-----------------------------------------------------------------------------
(* Strings *)

Min(a, b) == IF a < b THEN a ELSE b

\* s[i] of Python, 1-based
Char(s, i) == SubSeq(s, i, i)

\* s[:n]
Prefix(s, n) == SubSeq(s, 1, Min(n, Len(s)))

\* s[n:]
Drop(s, n) == SubSeq(s, Min(n, Len(s)) + 1, Len(s))

\* sub in s
Contains(s, sub) ==
    \E i \in 1..(Len(s) - Len(sub) + 1) : SubSeq(s, i, i + Len(sub) - 1) = sub

\* s.split(sep) for a single character sep: never empty, keeps empty segments.
\* The segments lie between the places of sep, the ends included.
Split(s, sep) ==
    LET cuts == {i \in 1..Len(s) : Char(s, i) = sep} \cup {0, Len(s) + 1}
        cut(k) == CHOOSE p \in cuts : Cardinality({q \in cuts : q < p}) = k
    IN  [k \in 1..(Cardinality(cuts) - 1) |-> SubSeq(s, cut(k - 1) + 1, cut(k) - 1)]

\* sep.join(parts)
RECURSIVE Join(_, _)
Join(parts, sep) ==
    IF parts = <<>> THEN ""
    ELSE IF Len(parts) = 1 THEN parts[1]
    ELSE parts[1] \o sep \o Join(Tail(parts), sep)

\* s.replace(a, b) for a single character a
Replace(s, a, b) == Join(Split(s, a), b)

\* [f(x) for x in seq]
MapSeq(seq, F(_)) == [i \in 1..Len(seq) |-> F(seq[i])]

-----------------------------------------------------------------------------
(* Python values *)

None == [t |-> "none"]
PyStr(s) == [t |-> "str", v |-> s]
PyInt(n) == [t |-> "int", v |-> n]
PyBool(b) == [t |-> "bool", v |-> b]
PyList(xs) == [t |-> "list", v |-> xs]
PyTuple(xs) == [t |-> "tuple", v |-> xs]
PyDict(pairs) == [t |-> "dict", v |-> pairs]
PyObject(repr) == [t |-> "object", v |-> repr]

\* bool(data)
Truthy(data) ==
    CASE data.t = "none" -> FALSE
      [] data.t = "str" -> data.v # ""
      [] data.t = "int" -> data.v # 0
      [] data.t = "bool" -> data.v
      [] data.t \in {"list", "tuple", "dict"} -> data.v # <<>>
      [] OTHER -> TRUE

\* the keys of a dict, in order
Keys(d) == [i \in 1..Len(d.v) |-> d.v[i][1]]

\* d.get(key): None when absent
Get(d, key) ==
    IF \E i \in 1..Len(d.v) : d.v[i][1] = key
    THEN d.v[CHOOSE i \in 1..Len(d.v) : d.v[i][1] = key][2]
    ELSE None

\* del d[key]
RECURSIVE DelPairs(_, _)
DelPairs(pairs, key) ==
    IF pairs = <<>> THEN <<>>
    ELSE IF pairs[1][1] = key THEN DelPairs(Tail(pairs), key)
    ELSE <<pairs[1]>> \o DelPairs(Tail(pairs), key)

Del(d, key) == PyDict(DelPairs(d.v, key))

\* whether json.dumps(data) returns (it raises TypeError on an object)
RECURSIVE Serializable(_)
Serializable(data) ==
    CASE data.t \in {"none", "str", "int", "bool"} -> TRUE
      [] data.t \in {"list", "tuple"} ->
            \A i \in 1..Len(data.v) : Serializable(data.v[i])
      [] data.t = "dict" ->
            \A i \in 1..Len(data.v) : Serializable(data.v[i][2])
      [] OTHER -> FALSE

\* the body of a JSON string: quote and backslash are escaped
RECURSIVE JsonEscape(_)
JsonEscape(s) ==
    IF s = "" THEN ""
    ELSE (IF Head(s) \in {"\"", "\\"} THEN "\\" \o Head(s)
          ELSE IF Head(s) = "\n" THEN "\\n"
          ELSE Head(s)) \o JsonEscape(Tail(s))

\* json.dumps(data, ensure_ascii=False) of a serializable value
RECURSIVE json_dumps(_)
json_dumps(data) ==
    CASE data.t = "none" -> "null"
      [] data.t = "str" -> "\"" \o JsonEscape(data.v) \o "\""
      [] data.t = "int" -> ToString(data.v)
      [] data.t = "bool" -> (IF data.v THEN "true" ELSE "false")
      [] data.t \in {"list", "tuple"} ->
            "[" \o Join([i \in 1..Len(data.v) |-> json_dumps(data.v[i])], ", ") \o "]"
      [] data.t = "dict" ->
            "{" \o Join([i \in 1..Len(data.v) |->
                            "\"" \o JsonEscape(data.v[i][1]) \o "\": "
                                 \o json_dumps(data.v[i][2])], ", ") \o "}"

\* repr(s) of a string without single quotes or backslashes
py_repr_str(s) == "'" \o s \o "'"

\* repr(data) of a value that holds no object
RECURSIVE py_repr(_)
py_repr(data) ==
    CASE data.t = "str" -> py_repr_str(data.v)
      [] data.t = "int" -> ToString(data.v)
      [] data.t = "bool" -> (IF data.v THEN "True" ELSE "False")
      [] data.t = "none" -> "None"
      [] data.t = "list" ->
            "[" \o Join([i \in 1..Len(data.v) |-> py_repr(data.v[i])], ", ") \o "]"
      [] data.t = "tuple" ->
            "(" \o Join([i \in 1..Len(data.v) |-> py_repr(data.v[i])], ", ")
                \o (IF Len(data.v) = 1 THEN "," ELSE "") \o ")"

\* str(data): a string is itself, an object gives its message, and every
\* other value its repr
py_str(data) ==
    CASE data.t = "str" -> data.v
      [] data.t = "object" -> data.v
      [] OTHER -> py_repr(data)

\* str(extra) of a normalized payload: None, a string, or a dict of strings
py_str_extra(extra) ==
    IF extra.t = "dict"
    THEN "{" \o Join([i \in 1..Len(extra.v) |->
                        py_repr_str(extra.v[i][1]) \o ": "
                            \o py_repr_str(extra.v[i][2].v)], ", ") \o "}"
    ELSE py_str(extra)

\* to_json without lines 33-34: a string is JSON-encoded like any other value
to_json_quotes_str(data) ==
    IF Serializable(data) THEN json_dumps(data) ELSE py_str(data)

\* lines 30-39
to_json(data) ==
    IF data.t = "str" THEN data.v
    ELSE IF Serializable(data) THEN json_dumps(data)
    ELSE py_str(data)

\* lines 42-55
dump(data) ==
    IF data.t = "none" THEN None
    ELSE IF data.t # "dict" THEN PyStr(py_str(data))
    ELSE LET kept == SelectSeq(data.v, LAMBDA p : p[2].t # "none")
         IN  PyDict([i \in 1..Len(kept) |-> <<kept[i][1], PyStr(to_json(kept[i][2]))>>])

-----------------------------------------------------------------------------
(* json.loads, the decoder the round trip of a normalized value is stated  *)
(* with: a recursive-descent parser of null, true, false, integers,        *)
(* strings and arrays.  A result is [ok |-> TRUE, val, next] or            *)
(* [ok |-> FALSE] (JSONDecodeError).                                        *)

Digits == {"0", "1", "2", "3", "4", "5", "6", "7", "8", "9"}

DigitVal(c) == CHOOSE d \in 0..9 : ToString(d) = c

ParseFail == [ok |-> FALSE]

RECURSIVE SkipWs(_, _)
SkipWs(s, i) == IF i <= Len(s) /\ Char(s, i) = " " THEN SkipWs(s, i + 1) ELSE i

\* the first position from i on that holds no digit
RECURSIVE DigitsEnd(_, _)
DigitsEnd(s, i) ==
    IF i <= Len(s) /\ Char(s, i) \in Digits THEN DigitsEnd(s, i + 1) ELSE i

RECURSIVE NatOf(_, _)
NatOf(ds, acc) ==
    IF ds = "" THEN acc ELSE NatOf(Tail(ds), 10 * acc + DigitVal(Head(ds)))

ParseNat(s, i) ==
    LET j == DigitsEnd(s, i)
        ds == SubSeq(s, i, j - 1)
    IN  IF j = i \/ (Len(ds) > 1 /\ Head(ds) = "0") THEN ParseFail
        ELSE [ok |-> TRUE, val |-> PyInt(NatOf(ds, 0)), next |-> j]

\* i is the position after the opening quote
RECURSIVE ParseString(_, _, _)
ParseString(s, i, acc) ==
    IF i > Len(s) THEN ParseFail
    ELSE IF Char(s, i) = "\"" THEN [ok |-> TRUE, val |-> PyStr(acc), next |-> i + 1]
    ELSE IF Char(s, i) = "\\"
    THEN IF i + 1 > Len(s) THEN ParseFail
         ELSE IF Char(s, i + 1) \in {"\"", "\\"}
         THEN ParseString(s, i + 2, acc \o Char(s, i + 1))
         ELSE IF Char(s, i + 1) = "n" THEN ParseString(s, i + 2, acc \o "\n")
         ELSE ParseFail
    ELSE ParseString(s, i + 1, acc \o Char(s, i))

IsAt(s, i, word) ==
    i + Len(word) - 1 <= Len(s) /\ SubSeq(s, i, i + Len(word) - 1) = word

RECURSIVE ParseValue(_, _)
RECURSIVE ParseElems(_, _, _)

ParseValue(s, i) ==
    IF i > Len(s) THEN ParseFail
    ELSE IF IsAt(s, i, "null") THEN [ok |-> TRUE, val |-> None, next |-> i + 4]
    ELSE IF IsAt(s, i, "true") THEN [ok |-> TRUE, val |-> PyBool(TRUE), next |-> i + 4]
    ELSE IF IsAt(s, i, "false") THEN [ok |-> TRUE, val |-> PyBool(FALSE), next |-> i + 5]
    ELSE IF Char(s, i) = "\"" THEN ParseString(s, i + 1, "")
    ELSE IF Char(s, i) = "-"
    THEN LET r == ParseNat(s, i + 1)
         IN  IF r.ok THEN [r EXCEPT !.val = PyInt(0 - r.val.v)] ELSE ParseFail
    ELSE IF Char(s, i) \in Digits THEN ParseNat(s, i)
    ELSE IF Char(s, i) = "["
    THEN LET j == SkipWs(s, i + 1)
         IN  IF IsAt(s, j, "]") THEN [ok |-> TRUE, val |-> PyList(<<>>), next |-> j + 1]
             ELSE ParseElems(s, j, <<>>)
    ELSE ParseFail

\* the elements of an array from position i on, after those of acc
ParseElems(s, i, acc) ==
    LET r == ParseValue(s, i)
    IN  IF ~r.ok THEN ParseFail
        ELSE LET j == SkipWs(s, r.next)
             IN  IF IsAt(s, j, ",") THEN ParseElems(s, SkipWs(s, j + 1), Append(acc, r.val))
                 ELSE IF IsAt(s, j, "]")
                 THEN [ok |-> TRUE, val |-> PyList(Append(acc, r.val)), next |-> j + 1]
                 ELSE ParseFail

json_loads(s) ==
    LET r == ParseValue(s, SkipWs(s, 1))
    IN  IF r.ok /\ SkipWs(s, r.next) = Len(s) + 1
        THEN [ok |-> TRUE, val |-> r.val]
        ELSE ParseFail

-----------------------------------------------------------------------------
(* Module constants.  The symbols of the source are emoji, which the       *)
(* module's character set cannot hold; each stands here under an ASCII     *)
(* name, in the order of SYMBOLS.                                          *)

SYMBOLS == <<"(speech)", "(green)", "(warning)", "(exclamation)",
             "(double-exclamation)", "(check)", "(bell)">>

TYPES == <<"DEBUG", "INFO", "WARNING", "ERROR", "CRITICAL", "IMPORTANT", "REQUEST">>

\* SYMBOLS[type_] and TYPES[type_] of the source, whose lists are 0-based
Symbol(type_) == SYMBOLS[type_ + 1]
Type(type_) == TYPES[type_ + 1]

UpperCase == "ABCDEFGHIJKLMNOPQRSTUVWXYZ"
LowerCase == "abcdefghijklmnopqrstuvwxyz"

\* s.lower()
RECURSIVE Lower(_)
Lower(s) ==
    IF s = "" THEN ""
    ELSE (IF \E i \in 1..Len(UpperCase) : Char(UpperCase, i) = Head(s)
          THEN Char(LowerCase, CHOOSE i \in 1..Len(UpperCase) : Char(UpperCase, i) = Head(s))
          ELSE Head(s)) \o Lower(Tail(s))

-----------------------------------------------------------------------------
(* Report._configure_logger: the class-level sink state and Loguru's       *)
(* handler table.  A handler is [id, path, level]; Loguru starts with the  *)
(* stderr handler 0 and numbers added handlers from 1.                     *)

Home == "/home/app"

\* Path(p).expanduser() as a string: "." components and repeated slashes
\* are dropped by Path, a leading "~" is replaced by the home directory
PathOf(p) ==
    LET parts == Split(p, "/")
        body == SelectSeq(parts, LAMBDA x : x # "" /\ x # ".")
        rel == Join(body, "/")
    IN  IF Head(parts) = "" /\ Len(parts) > 1 THEN "/" \o rel
        ELSE IF body # <<>> /\ Head(body) = "~"
        THEN Home \o (IF Len(body) > 1 THEN "/" \o Join(Tail(body), "/") ELSE "")
        ELSE IF rel = "" THEN "." ELSE rel

DefaultHandler == [id |-> 0, path |-> "<stderr>", level |-> "DEBUG"]

NoSinks == [log_sink_id |-> None, err_sink_id |-> None,
            log_path |-> None, err_path |-> None]

\* logger.remove(id) on handler table h: the table without it
LoggerRemove(h, id) == {x \in h : x.id # id}

Registered(h, id) == \E x \in h : x.id = id

\* the sink ids to remove, in the order of the loop of lines 105-107
OldSinkIds(st) ==
    SelectSeq(<<st.log_sink_id, st.err_sink_id>>, LAMBDA x : x.t # "none")

\* _configure_logger without the loop of lines 105-107: the old sinks stay
configure_logger_keeps_old(h, n, st, log_file, err_file) ==
    LET log_path == PyStr(PathOf(log_file))
        err_path == PyStr(PathOf(err_file))
    IN  IF <<log_path, err_path>> = <<st.log_path, st.err_path>>
        THEN [handlers |-> h, nextId |-> n, sinkState |-> st, ops |-> <<>>]
        ELSE [handlers |-> LoggerRemove(h, 0) \cup
                             {[id |-> n, path |-> log_path.v, level |-> "DEBUG"],
                              [id |-> n + 1, path |-> err_path.v, level |-> "WARNING"]},
              nextId |-> n + 2,
              sinkState |-> [log_sink_id |-> PyInt(n), err_sink_id |-> PyInt(n + 1),
                             log_path |-> log_path, err_path |-> err_path],
              ops |-> <<<<"add", n>>, <<"add", n + 1>>>>]

\* The result of _configure_logger on handler table h, id counter n and class
\* state st: the new table, counter and class state, and the logger calls made.
\* logger.remove of an id that is not registered raises ValueError, which only
\* the removal of the default handler 0 catches; ops then ends with "raise" and
\* the state is the one reached at the raise.  The mkdir calls of lines 93-94
\* act on the file system only.
configure_logger(h, n, st, log_file, err_file) ==
    LET log_path == PyStr(PathOf(log_file))
        err_path == PyStr(PathOf(err_file))
        first == st.log_sink_id = None /\ st.err_sink_id = None
        drop0 == first /\ Registered(h, 0)
        h0 == IF drop0 THEN LoggerRemove(h, 0) ELSE h
        ops0 == IF drop0 THEN <<<<"remove", 0>>>> ELSE <<>>
        old == OldSinkIds(st)
        \* the first old id that is not registered, if any
        bad == {i \in 1..Len(old) :
                  /\ ~Registered(h0, old[i].v)
                  /\ \A j \in 1..(i - 1) : Registered(h0, old[j].v) /\ old[j] # old[i]}
        upto == IF bad = {} THEN Len(old) ELSE (CHOOSE i \in bad : TRUE) - 1
        h1 == {x \in h0 : \A i \in 1..upto : x.id # old[i].v}
        ops1 == ops0 \o [i \in 1..upto |-> <<"remove", old[i].v>>]
    IN  IF <<log_path, err_path>> = <<st.log_path, st.err_path>>
        THEN [handlers |-> h, nextId |-> n, sinkState |-> st, ops |-> <<>>]
        ELSE IF bad # {}
        THEN [handlers |-> h1, nextId |-> n, sinkState |-> st,
              ops |-> Append(ops1, <<"raise">>)]
        ELSE [handlers |-> h1 \cup
                             {[id |-> n, path |-> log_path.v, level |-> "DEBUG"],
                              [id |-> n + 1, path |-> err_path.v, level |-> "WARNING"]},
              nextId |-> n + 2,
              sinkState |-> [log_sink_id |-> PyInt(n), err_sink_id |-> PyInt(n + 1),
                             log_path |-> log_path, err_path |-> err_path],
              ops |-> ops1 \o <<<<"add", n>>, <<"add", n + 1>>>>]

-----------------------------------------------------------------------------
(* Report._report up to its first await: escalation, suppression,          *)
(* provenance, logical path and message composition.                       *)
(*                                                                         *)
(* An error value is None or [t |-> "exc", name, v, tb]: the exception's   *)
(* type name, its str() and the frames of its __traceback__ as             *)
(* traceback.extract_tb returns them, outermost first.  A frame, like the  *)
(* call site inspect.stack()[2], is [filename, lineno, name].              *)

Exc(name, msg, tb) == [t |-> "exc", name |-> name, v |-> msg, tb |-> tb]

Reverse(seq) == [i \in 1..Len(seq) |-> seq[Len(seq) + 1 - i]]

\* seq[:-1]
AllButLast(seq) == SubSeq(seq, 1, Len(seq) - 1)

\* the override without the del statements of lines 146 and 150
escalate_keeps_key(type_, extra) ==
    IF extra.t # "dict" THEN [type_ |-> type_, extra |-> extra]
    ELSE [type_ |-> IF Get(extra, "name") = PyStr("Error")
                       \/ Get(extra, "title") = PyStr("Error") THEN 3 ELSE type_,
          extra |-> extra]

\* lines 143-150: the override of the severity and the removal of the sentinel
escalate(type_, extra) ==
    IF extra.t # "dict" THEN [type_ |-> type_, extra |-> extra]
    ELSE LET byName == Get(extra, "name") = PyStr("Error")
             e1 == IF byName THEN Del(extra, "name") ELSE extra
             byTitle == Get(e1, "title") = PyStr("Error")
             e2 == IF byTitle THEN Del(e1, "title") ELSE e1
         IN  [type_ |-> IF byName \/ byTitle THEN 3 ELSE type_, extra |-> e2]

\* line 152 without its test of the mode
suppressed_ignores_mode(md, type_) == type_ = 1

\* lines 152-153
suppressed(md, type_) == md \notin {"PRE", "PROD"} /\ type_ = 1

\* line 141 moved below the escalation
without_traceback_late(type_, escalated) == escalated \in {1, 5, 6}

\* line 141: whether the report carries no provenance, decided on the type_
\* the entry point passed, before lines 143-150 escalate it to `escalated`
without_traceback(type_, escalated) == type_ \in {1, 5, 6}

\* lines 164-170: the frame the provenance is taken from; traces[0] of an
\* empty list raises IndexError
select_trace(error) ==
    LET traces == Reverse(error.tb)
        own == {i \in 1..Len(traces) : ~Contains(traces[i].filename, "python")}
    IN  IF traces = <<>> THEN [raised |-> TRUE]
        ELSE [raised |-> FALSE,
              trace |-> IF own # {}
                        THEN traces[CHOOSE i \in own : \A j \in own : i <= j]
                        ELSE traces[1]]

\* lines 158-180; no provenance (filename None) is the empty filename, which
\* line 182 tells apart no further
provenance(without, error, site) ==
    IF without
    THEN [raised |-> FALSE, filename |-> "", lineno |-> 0, function |-> ""]
    ELSE IF error.t # "none"
    THEN LET sel == select_trace(error)
         IN  IF sel.raised THEN [raised |-> TRUE]
             ELSE [raised |-> FALSE, filename |-> sel.trace.filename,
                   lineno |-> sel.trace.lineno, function |-> sel.trace.name]
    ELSE [raised |-> FALSE, filename |-> site.filename,
          lineno |-> site.lineno, function |-> site.name]

\* lines 183-186
clean_filename(filename) ==
    LET f1 == IF Prefix(filename, 4) = "/app" THEN Drop(filename, 4) ELSE filename
    IN  IF Prefix(f1, 3) = "/./" THEN Drop(f1, 3) ELSE f1

\* lines 188-200, on the cleaned filename
path_label(filename, function) ==
    LET path == AllButLast(Split(Replace(filename, "/", "."), "."))
        p1 == IF path[1] = "api" THEN Tail(path) ELSE path
        p2 == IF function # "" /\ function # "handle" THEN Append(p1, function) ELSE p1
    IN  IF path # <<>> THEN "\n" \o Join(p2, ".") ELSE ""

\* lines 182-206: the path part of the headline for a frame
frame_path(filename, function) ==
    IF filename # "" THEN path_label(clean_filename(filename), function) ELSE ""

\* lines 210-218: the extra block with its separator, empty for a falsy payload
extra_block(extra) ==
    IF ~Truthy(extra) THEN ""
    ELSE "\n\n" \o (IF extra.t = "dict"
                    THEN Join([i \in 1..Len(extra.v) |->
                                 extra.v[i][1] \o " = " \o extra.v[i][2].v], "\n")
                    ELSE py_str(extra))

\* lines 155-156, 220-222
outro(md, tags, source) ==
    LET given == IF Truthy(tags) THEN tags.v ELSE <<>>
    IN  "\n" \o source \o "\n#" \o Join(<<Lower(md)>> \o given, " #")

\* _report from its entry to the first await: "return" (suppressed), "raise",
\* or "send" with the locals that live on: type_, extra, the base message,
\* the extended message
report(md, text, type_, extra, tags, error, site) ==
    LET esc == escalate(type_, extra)
        prov == provenance(without_traceback(type_, esc.type_), error, site)
    IN  IF suppressed(md, esc.type_) THEN [status |-> "return"]
        ELSE IF prov.raised THEN [status |-> "raise", exc |-> "IndexError"]
        ELSE LET filename == clean_filename(prov.filename)
                 path == frame_path(prov.filename, prov.function)
                 source == IF prov.filename # ""
                           THEN "\n" \o filename \o ":" \o ToString(prov.lineno) ELSE ""
                 head == Symbol(esc.type_) \o " " \o md \o " " \o Type(esc.type_)
                            \o path \o "\n\n" \o text
                 foot == outro(md, tags, source)
             IN  [status |-> "send", type_ |-> esc.type_, extra |-> esc.extra,
                  text |-> head \o foot,
                  text_with_extra |-> head \o extra_block(esc.extra) \o foot]

\* "".join(traceback.format_exception(None, error, error.__traceback__)); the
\* source text lines Python prints under each frame are left out
format_exception(error) ==
    (IF error.tb = <<>> THEN ""
     ELSE "Traceback (most recent call last):\n"
            \o Join([i \in 1..Len(error.tb) |->
                       "  File \"" \o error.tb[i].filename \o "\", line "
                          \o ToString(error.tb[i].lineno) \o ", in "
                          \o error.tb[i].name \o "\n"], ""))
    \o error.name \o ": " \o error.v \o "\n"

-----------------------------------------------------------------------------
(* The entry points.  A call runs from its entry to the first await of     *)
(* tg.send in one step (pc = "send1"), or to its end ("done", "raised");   *)
(* the transport's answer resumes it.  events is what the call has done    *)
(* so far: its sink writes, its transport invocations and the transport's  *)
(* answers.                                                                 *)

NoCall == [method |-> "none"]
NoLocals == [status |-> "none"]
NoProbe == [fn |-> "none"]

LogEvent(by, level, message) ==
    [kind |-> "log", by |-> by, level |-> level, message |-> message]

SendEvent(text) == [kind |-> "send", text |-> text]

\* an entry point that tests silent before it writes to the sink
entry_silent_skips_log(logrec, silent, rep) ==
    IF silent THEN [pc |-> "done", locals |-> NoLocals, events |-> <<>>]
    ELSE IF rep.status = "return"
    THEN [pc |-> "done", locals |-> NoLocals, events |-> <<logrec>>]
    ELSE IF rep.status = "raise"
    THEN [pc |-> "raised", locals |-> NoLocals, events |-> <<logrec>>]
    ELSE [pc |-> "send1", locals |-> rep,
          events |-> <<logrec, SendEvent(rep.text_with_extra)>>]

\* a public method after it has normalized extra: the sink write, then
\* `if not silent: await self._report(...)`
entry(logrec, silent, rep) ==
    IF silent \/ rep.status = "return"
    THEN [pc |-> "done", locals |-> NoLocals, events |-> <<logrec>>]
    ELSE IF rep.status = "raise"
    THEN [pc |-> "raised", locals |-> NoLocals, events |-> <<logrec>>]
    ELSE [pc |-> "send1", locals |-> rep,
          events |-> <<logrec, SendEvent(rep.text_with_extra)>>]

\* the content error() and critical() write, lines 287-291 and 308-312
content(text, extra, error) ==
    IF error.t # "none" THEN format_exception(error)
    ELSE text \o "  " \o json_dumps(extra)

(* Inputs *)

Texts == {"test"}

Extras ==
    { None,
      PyInt(5),
      PyStr(""),
      PyObject("division by zero"),
      PyDict(<<>>),
      PyDict(<< <<"code", PyInt(5)>> >>),
      PyDict(<< <<"name", PyStr("Error")>>, <<"code", PyInt(5)>> >>),
      PyDict(<< <<"title", PyStr("Error")>> >>),
      PyDict(<< <<"hinkali", None>> >>),
      PyDict(<< <<"name", PyStr("Error")>>, <<"hinkali", None>>,
                <<"title", PyStr("Error")>>, <<"onigiri", PyList(<<PyInt(1), PyStr("a")>>)>> >>),
      PyDict(<< <<"name", PyStr("Bob")>>, <<"title", PyStr("Error")>>,
                <<"ramen", PyObject("division by zero")>> >>) }

TagLists == { None, PyList(<<>>), PyList(<<"new", "tag">>) }

Frame(filename, lineno, name) ==
    [filename |-> filename, lineno |-> lineno, name |-> name]

\* inspect.stack()[2]: the callers of the public methods
Sites ==
    { Frame("/app/api/users.py", 42, "handle"),
      Frame("service/worker.py", 7, "run"),
      Frame("/./api.py", 3, "handle") }

LibFrame == Frame("/usr/lib/python3.11/json/decoder.py", 355, "raw_decode")

Errors ==
    { None,
      \* an exception that was built and never raised
      Exc("ValueError", "bad value", <<>>),
      Exc("JSONDecodeError", "Expecting value",
          << Frame("/app/api/users.py", 42, "handle"),
             Frame("/app/service/parse.py", 12, "load"), LibFrame >>),
      Exc("JSONDecodeError", "Expecting value", << LibFrame >>) }

\* what tg.send raises when it fails
SendErrors == {"Timed out", "Forbidden: bot was blocked"}

Call(method, text, extra, tags, error, silent, site) ==
    [method |-> method, text |-> text, extra |-> extra, tags |-> tags,
     error |-> error, silent |-> silent, site |-> site]

NoSite == Frame("", 0, "")

(* Actions *)

debug ==
    /\ pc = "idle"
    /\ \E text \in Texts, extra \in Extras :
        /\ call' = Call("debug", text, extra, None, None, FALSE, NoSite)
        /\ pc' = "done"
        /\ locals' = NoLocals
        /\ events' = << LogEvent("entry", "DEBUG",
                          Symbol(0) \o "  " \o text \o "  " \o py_str_extra(dump(extra))) >>
        /\ UNCHANGED <<mode, handlers, nextId, sinkState, sinkOps, probe>>

info ==
    /\ pc = "idle"
    /\ \E text \in Texts, extra \in Extras, tags \in TagLists, silent \in BOOLEAN,
          site \in Sites :
        LET x == dump(extra)
            r == entry(LogEvent("entry", "INFO", Symbol(1) \o "  " \o text \o "  " \o json_dumps(x)),
                       silent, report(mode, text, 1, x, tags, None, site))
        IN  /\ call' = Call("info", text, extra, tags, None, silent, site)
            /\ pc' = r.pc
            /\ locals' = r.locals
            /\ events' = r.events
            /\ UNCHANGED <<mode, handlers, nextId, sinkState, sinkOps, probe>>

warning ==
    /\ pc = "idle"
    /\ \E text \in Texts, extra \in Extras, tags \in TagLists, err \in Errors,
       silent \in BOOLEAN, site \in Sites :
        LET x == dump(extra)
            r == entry(LogEvent("entry", "WARNING", Symbol(2) \o "  " \o text \o "  " \o json_dumps(x)),
                       silent, report(mode, text, 2, x, tags, err, site))
        IN  /\ call' = Call("warning", text, extra, tags, err, silent, site)
            /\ pc' = r.pc
            /\ locals' = r.locals
            /\ events' = r.events
            /\ UNCHANGED <<mode, handlers, nextId, sinkState, sinkOps, probe>>

error ==
    /\ pc = "idle"
    /\ \E text \in Texts, extra \in Extras, tags \in TagLists, err \in Errors,
       silent \in BOOLEAN, site \in Sites :
        LET x == dump(extra)
            r == entry(LogEvent("entry", "ERROR", Symbol(3) \o "  " \o content(text, x, err)),
                       silent, report(mode, text, 3, x, tags, err, site))
        IN  /\ call' = Call("error", text, extra, tags, err, silent, site)
            /\ pc' = r.pc
            /\ locals' = r.locals
            /\ events' = r.events
            /\ UNCHANGED <<mode, handlers, nextId, sinkState, sinkOps, probe>>

critical ==
    /\ pc = "idle"
    /\ \E text \in Texts, extra \in Extras, tags \in TagLists, err \in Errors,
       silent \in BOOLEAN, site \in Sites :
        LET x == dump(extra)
            r == entry(LogEvent("entry", "CRITICAL", Symbol(4) \o "  " \o content(text, x, err)),
                       silent, report(mode, text, 4, x, tags, err, site))
        IN  /\ call' = Call("critical", text, extra, tags, err, silent, site)
            /\ pc' = r.pc
            /\ locals' = r.locals
            /\ events' = r.events
            /\ UNCHANGED <<mode, handlers, nextId, sinkState, sinkOps, probe>>

important ==
    /\ pc = "idle"
    /\ \E text \in Texts, extra \in Extras, tags \in TagLists, silent \in BOOLEAN,
          site \in Sites :
        LET x == dump(extra)
            r == entry(LogEvent("entry", "INFO", Symbol(5) \o "  " \o text \o "  " \o json_dumps(x)),
                       silent, report(mode, text, 5, x, tags, None, site))
        IN  /\ call' = Call("important", text, extra, tags, None, silent, site)
            /\ pc' = r.pc
            /\ locals' = r.locals
            /\ events' = r.events
            /\ UNCHANGED <<mode, handlers, nextId, sinkState, sinkOps, probe>>

request ==
    /\ pc = "idle"
    /\ \E text \in Texts, extra \in Extras, tags \in TagLists, silent \in BOOLEAN,
          site \in Sites :
        LET x == dump(extra)
            r == entry(LogEvent("entry", "INFO", Symbol(6) \o "  " \o text \o "  " \o json_dumps(x)),
                       silent, report(mode, text, 6, x, tags, None, site))
        IN  /\ call' = Call("request", text, extra, tags, None, silent, site)
            /\ pc' = r.pc
            /\ locals' = r.locals
            /\ events' = r.events
            /\ UNCHANGED <<mode, handlers, nextId, sinkState, sinkOps, probe>>

\* line 232 as `if extra is not None`
needs_fallback_not_none(extra) == extra.t # "none"

\* line 232: whether the failed send is followed by the fallback send
needs_fallback(extra) == Truthy(extra)

\* tg.send returns: the call is over
SendOk ==
    /\ pc \in {"send1", "send2"}
    /\ pc' = "done"
    /\ events' = Append(events, [kind |-> "sent"])
    /\ UNCHANGED <<mode, call, locals, handlers, nextId, sinkState, sinkOps, probe>>

\* tg.send raises e: lines 231-243
SendFail ==
    /\ pc \in {"send1", "send2"}
    /\ \E e \in SendErrors :
        LET lastLog == LogEvent("report", "ERROR",
                           Symbol(3) \o "  Send report  " \o ToString(locals.type_)
                              \o " " \o locals.text \o " " \o e)
            failed == Append(events, [kind |-> "failed", e |-> e])
        IN  /\ IF pc = "send1" /\ needs_fallback(locals.extra)
               THEN /\ events' = failed \o
                         << LogEvent("report", "ERROR",
                                Symbol(3) \o "  Send report  "
                                   \o py_str_extra(locals.extra) \o " " \o e),
                            SendEvent(locals.text) >>
                    /\ pc' = "send2"
               ELSE /\ events' = Append(failed, lastLog)
                    /\ pc' = "done"
            /\ UNCHANGED <<mode, call, locals, handlers, nextId, sinkState, sinkOps, probe>>

\* the caller's await ends, with the result or the exception
Return ==
    /\ pc \in {"done", "raised"}
    /\ pc' = "idle"
    /\ call' = NoCall
    /\ locals' = NoLocals
    /\ events' = <<>>
    /\ UNCHANGED <<mode, handlers, nextId, sinkState, sinkOps, probe>>

\* Report(mode, token, bug_chat) with the default log_file and err_file, in a
\* fresh process (lines 71-86)
ModeArgs == {"", "PRE", "PROD"}

Constructed(m, log_file, err_file, h, n, st) ==
    LET r == configure_logger(h, n, st, log_file, err_file)
    IN  /\ mode' = (IF m = "" THEN "TEST" ELSE m)
        /\ handlers' = r.handlers
        /\ nextId' = r.nextId
        /\ sinkState' = r.sinkState
        /\ sinkOps' = r.ops

Init ==
    /\ \E m \in ModeArgs :
         LET r == configure_logger({DefaultHandler}, 1, NoSinks, "app.log", "app.err")
         IN  /\ mode = (IF m = "" THEN "TEST" ELSE m)
             /\ handlers = r.handlers
             /\ nextId = r.nextId
             /\ sinkState = r.sinkState
             /\ sinkOps = r.ops
    /\ pc = "idle"
    /\ call = NoCall
    /\ locals = NoLocals
    /\ events = <<>>
    /\ probe = NoProbe

Next ==
    \/ debug
    \/ info
    \/ warning
    \/ error
    \/ critical
    \/ important
    \/ request
    \/ SendOk
    \/ SendFail
    \/ Return

Spec == Init /\ [][Next]_vars

-----------------------------------------------------------------------------
(* The class before any Report is built, and repeated construction.        *)

MaxReconfigurations == 3

LogFiles == {"app.log", "./app.log", "logs/app.log", "/var/log/app.log"}
ErrFiles == {"app.err", "~/app.err", "logs//app.err"}

InitClass ==
    /\ mode = ""
    /\ handlers = {DefaultHandler}
    /\ nextId = 1
    /\ sinkState = NoSinks
    /\ sinkOps = <<>>
    /\ pc = "idle"
    /\ call = NoCall
    /\ locals = NoLocals
    /\ events = <<>>
    /\ probe = NoProbe

\* Report(m, token, bug_chat, log_file, err_file), lines 71-86
Construct ==
    /\ nextId <= 2 * MaxReconfigurations
    /\ \E m \in ModeArgs, log_file \in LogFiles, err_file \in ErrFiles :
        /\ Constructed(m, log_file, err_file, handlers, nextId, sinkState)
        /\ call' = [method |-> "__init__", log_file |-> log_file, err_file |-> err_file]
        /\ UNCHANGED <<pc, locals, events, probe>>

SpecSinks == InitClass /\ [][Construct]_vars

-----------------------------------------------------------------------------
(* The payload normalizer alone, on a bounded family of payloads.          *)

MaxPairs == 2

PayloadKeys == {"name", "code", "ramen"}

PayloadValues ==
    { None, PyStr("hi"), PyStr("5"), PyStr(""), PyStr("Error"),
      PyInt(0), PyInt(5), PyInt(-12), PyBool(TRUE), PyBool(FALSE),
      PyList(<<>>), PyList(<<PyInt(1), PyStr("a")>>),
      PyList(<<PyList(<<PyInt(2)>>), PyBool(FALSE), PyStr("say \"hi\"")>>),
      PyTuple(<<PyInt(7), PyInt(8)>>),
      PyObject("division by zero") }

\* the dicts of at most MaxPairs entries: a dict holds a key once
PayloadDicts ==
    { PyDict(pairs) :
        pairs \in { q \in UNION { [1..n -> PayloadKeys \X PayloadValues] : n \in 0..MaxPairs } :
                      \A i, j \in 1..Len(q) : i # j => q[i][1] # q[j][1] } }

DumpInputs == PayloadValues \cup PayloadDicts

InitDump ==
    /\ InitClass!1 /\ InitClass!2 /\ InitClass!3 /\ InitClass!4 /\ InitClass!5
    /\ InitClass!6 /\ InitClass!7 /\ InitClass!8 /\ InitClass!9
    /\ \E data \in DumpInputs : probe = [fn |-> "dump", arg |-> data, done |-> FALSE]

ApplyDump ==
    /\ probe.fn = "dump"
    /\ ~probe.done
    /\ probe' = [fn |-> "dump", arg |-> probe.arg, done |-> TRUE, res |-> dump(probe.arg)]
    /\ UNCHANGED <<mode, pc, call, locals, events, handlers, nextId, sinkState, sinkOps>>

SpecDump == InitDump /\ [][ApplyDump]_vars

-----------------------------------------------------------------------------
(* The logical path of lines 182-206 alone, on a bounded family of frames. *)

PathPrefixes == {"", "/app/", "/./", "/srv/", "/app"}
PathDirs == {"", "api/", "service/", "api/v1/", "lib/python3/"}
PathFiles == {"worker.py", "api.py", "main", "handle.py"}
Functions == {"run", "handle", "<module>", ""}

Filenames == { a \o b \o c : a \in PathPrefixes, b \in PathDirs, c \in PathFiles }

InitPath ==
    /\ InitClass!1 /\ InitClass!2 /\ InitClass!3 /\ InitClass!4 /\ InitClass!5
    /\ InitClass!6 /\ InitClass!7 /\ InitClass!8 /\ InitClass!9
    /\ \E f \in Filenames, g \in Functions :
         probe = [fn |-> "path", filename |-> f, function |-> g, done |-> FALSE]

ApplyPath ==
    /\ probe.fn = "path"
    /\ ~probe.done
    /\ probe' = [fn |-> "path", filename |-> probe.filename, function |-> probe.function,
                 done |-> TRUE, res |-> frame_path(probe.filename, probe.function)]
    /\ UNCHANGED <<mode, pc, call, locals, events, handlers, nextId, sinkState, sinkOps>>

SpecPath == InitPath /\ [][ApplyPath]_vars

-----------------------------------------------------------------------------
(* Properties *)

Sends == SelectSeq(events, LAMBDA ev : ev.kind = "send")

InCall == pc # "idle"

\* the lines of a message
Lines(text) == Split(text, "\n")

\* the severity label of a message: the third word of its first line
Label(text) == Split(Lines(text)[1], " ")[3]

\* the line above the hashtag line: the source location, or blank
SourceLine(text) == Lines(text)[Len(Lines(text)) - 1]

\* the normalized payload holds the sentinel under key
Sentinel(extra, key) ==
    /\ extra.t = "dict"
    /\ \E i \in 1..Len(extra.v) :
          /\ extra.v[i][1] = key
          /\ extra.v[i][2].t # "none"
          /\ to_json(extra.v[i][2]) = "Error"

Escalating(extra) == Sentinel(extra, "name") \/ Sentinel(extra, "title")

(* C1, as claimed: a call of info invokes the transport if and only if     *)
(* mode is PRE or PROD and silent is false, whatever the extra payload.    *)
C1_InfoSendsIffModeAndNotSilent ==
    (InCall /\ call.method = "info") =>
        (Sends # <<>> <=> (mode \in {"PRE", "PROD"} /\ ~call.silent))

(* C1, amended: a call of info invokes the transport if and only if silent *)
(* is false and either mode is PRE or PROD or the payload escalates the    *)
(* report (key name or title with the value "Error").                      *)
C1_InfoSendsIffEligible ==
    (InCall /\ call.method = "info") =>
        (Sends # <<>> <=>
            (~call.silent /\ (mode \in {"PRE", "PROD"} \/ Escalating(call.extra))))

C1_Witness ==
    /\ call.method = "info"
    /\ mode = "PROD"
    /\ ~call.silent
    /\ ~Escalating(call.extra)
    /\ Sends # <<>>

(* C2: no call of a public entry point ends by raising to its caller.      *)
C2_NeverRaises == pc # "raised"

\* s1 is s2 with block inserted at one place
InsertedIn(s1, s2, block) ==
    \E i \in 0..Len(s2) : s1 = SubSeq(s2, 1, i) \o block \o SubSeq(s2, i + 1, Len(s2))

\* the answer of the transport to the first send, "" while there is none
FirstAnswer ==
    LET at == {i \in 1..Len(events) : events[i].kind \in {"sent", "failed"}}
    IN  IF at = {} THEN "" ELSE events[CHOOSE i \in at : \A j \in at : i <= j].kind

\* the extra block of the wire format for a payload that is not empty: a blank
\* line, then one `key = value` line per entry, or the string itself
WireBlock(extra) ==
    "\n\n" \o (IF extra.t = "dict"
               THEN Join([i \in 1..Len(extra.v) |->
                            Join(<<extra.v[i][1], extra.v[i][2].v>>, " = ")], "\n")
               ELSE extra.v)

(* C3: a report makes at most two transport invocations; the first carries *)
(* the extended message; there is a second one if and only if the first    *)
(* failed and the payload the report holds is not empty, and it carries    *)
(* the base message, which is the first message without its extra block;   *)
(* every failed send is followed at once by an error-level sink write.     *)
C3_FallbackOnce ==
    InCall =>
        /\ Len(Sends) <= 2
        /\ Sends # <<>> =>
              /\ Truthy(locals.extra) =>
                    Contains(Sends[1].text, WireBlock(locals.extra) \o "\n\n")
              /\ Len(Sends) = 2 <=> (FirstAnswer = "failed" /\ Truthy(locals.extra))
              /\ Len(Sends) = 2 =>
                    /\ Sends[2].text # Sends[1].text
                    /\ InsertedIn(Sends[1].text, Sends[2].text, WireBlock(locals.extra))
        /\ \A i \in 1..Len(events) :
              events[i].kind = "failed" =>
                  /\ i < Len(events)
                  /\ events[i + 1].kind = "log"
                  /\ events[i + 1].level = "ERROR"

C3_Witness ==
    /\ pc = "done"
    /\ Len(Sends) = 2
    /\ Cardinality({i \in 1..Len(events) : events[i].kind = "failed"}) = 2

(* C4: a call of info, not silent, whose extra mapping holds "Error" under *)
(* name or title sends messages labelled ERROR with the Error symbol; the  *)
(* extended message has no line for that key and a `key = value` line for  *)
(* every other entry that is not null.                                     *)
C4_EscalationOverride ==
    (InCall /\ call.method = "info" /\ ~call.silent /\ Escalating(call.extra)) =>
        /\ Sends # <<>>
        /\ \A i \in 1..Len(Sends) :
              /\ Label(Sends[i].text) = "ERROR"
              /\ Prefix(Sends[i].text, Len(Symbol(3)) + 1) = Symbol(3) \o " "
        /\ \A key \in {"name", "title"} :
              Sentinel(call.extra, key) => ~Contains(Sends[1].text, "\n" \o key \o " = ")
        /\ \A i \in 1..Len(call.extra.v) :
              LET q == call.extra.v[i]
              IN  (q[2].t # "none" /\ ~Sentinel(call.extra, q[1])) =>
                      Contains(Sends[1].text, "\n" \o q[1] \o " = " \o to_json(q[2]) \o "\n")

C4_Witness ==
    /\ call.method = "info"
    /\ mode = "TEST"
    /\ Sentinel(call.extra, "name")
    /\ Sends # <<>>
    /\ Contains(Sends[1].text, "\ncode = 5\n")

EntryWrites == {i \in 1..Len(events) : events[i].kind = "log" /\ events[i].by = "entry"}

(* C5: every call writes to the local sink exactly once on its own         *)
(* account, before any transport invocation, and a silent call invokes the *)
(* transport never and still writes.                                       *)
C5_LocalWriteFirst ==
    InCall =>
        /\ EntryWrites = {1}
        /\ call.silent => Sends = <<>>

C5_Witness ==
    /\ pc = "done"
    /\ call.method = "error"
    /\ call.silent
    /\ Len(events) = 1
    /\ events[1].level = "ERROR"

TypeOf(method) ==
    CASE method = "debug" -> 0 [] method = "info" -> 1 [] method = "warning" -> 2
      [] method = "error" -> 3 [] method = "critical" -> 4
      [] method = "important" -> 5 [] method = "request" -> 6

(* C6: warning, error and critical write the rendered frame trace of the   *)
(* error when one is given, and the text followed by the rendered extra    *)
(* payload when none is.                                                    *)
C6_HighSeverityContent ==
    (InCall /\ call.method \in {"warning", "error", "critical"}) =>
        events[1].message =
            Symbol(TypeOf(call.method)) \o "  " \o
                (IF call.error.t # "none" THEN format_exception(call.error)
                 ELSE call.text \o "  " \o json_dumps(dump(call.extra)))

DumpDone == probe.fn = "dump" /\ probe.done

\* the entries of a dict whose value is not null
NonNull(d) == SelectSeq(d.v, LAMBDA q : q[2].t # "none")

\* a value json.loads can return: no tuple, no object
RECURSIVE JsonNative(_)
JsonNative(data) ==
    CASE data.t \in {"none", "str", "int", "bool"} -> TRUE
      [] data.t = "list" -> \A i \in 1..Len(data.v) : JsonNative(data.v[i])
      [] OTHER -> FALSE

DecodesTo(s, data) == json_loads(s) = [ok |-> TRUE, val |-> data]

\* null gives null, a non-mapping its string form, a mapping the keys of its
\* non-null entries in order
DumpShape ==
    /\ probe.arg.t = "none" => probe.res = None
    /\ probe.arg.t \notin {"none", "dict"} => probe.res = PyStr(py_str(probe.arg))
    /\ probe.arg.t = "dict" =>
          /\ probe.res.t = "dict"
          /\ Keys(probe.res) = [i \in 1..Len(NonNull(probe.arg)) |-> NonNull(probe.arg)[i][1]]
          /\ \A i \in 1..Len(probe.res.v) : probe.res.v[i][2].t = "str"

(* C7, as claimed: dump gives null for null, the string form for a         *)
(* non-mapping and, for a mapping, the keys of the non-null entries in     *)
(* order; and when every non-null value of the mapping is                  *)
(* JSON-serializable, each output value decodes as JSON to the input       *)
(* value.                                                                   *)
C7_DumpRoundTrip ==
    DumpDone =>
        /\ DumpShape
        /\ (probe.arg.t = "dict" /\ \A i \in 1..Len(probe.arg.v) : Serializable(probe.arg.v[i][2])) =>
              \A i \in 1..Len(probe.res.v) :
                  DecodesTo(probe.res.v[i][2].v, NonNull(probe.arg)[i][2])

(* C7, amended: the same shape; a string value is passed through unchanged *)
(* (it is not re-quoted, so it does not decode back in general); an        *)
(* integer, a boolean or a list of JSON values decodes as JSON to the      *)
(* input value; a tuple of JSON values decodes to the list of its items;   *)
(* a value that is not serializable becomes its string form.               *)
C7_DumpNormalizes ==
    DumpDone =>
        /\ DumpShape
        /\ probe.arg.t = "dict" =>
              \A i \in 1..Len(probe.res.v) :
                  LET given == NonNull(probe.arg)[i][2]
                      out == probe.res.v[i][2].v
                  IN  /\ given.t = "str" => out = given.v
                      /\ (given.t # "str" /\ JsonNative(given)) => DecodesTo(out, given)
                      /\ (given.t = "tuple" /\ JsonNative(PyList(given.v))) =>
                            DecodesTo(out, PyList(given.v))
                      /\ ~Serializable(given) => out = py_str(given)

C7_Witness ==
    /\ DumpDone
    /\ probe.arg.t = "dict"
    /\ Len(probe.arg.v) = 2
    /\ Len(probe.res.v) = 1
    /\ probe.arg.v[1][2].t = "none"
    /\ probe.arg.v[2][2].t = "list"
    /\ Len(probe.arg.v[2][2].v) = 3

\* the label as the claim derives it: the components without the last, minus
\* a leading api, plus the function unless it is handle; empty when no segment
\* is left, else a line break and the segments joined by dots
ClaimedLabel(filename, function) ==
    LET parts == AllButLast(Split(Replace(filename, "/", "."), "."))
        kept == IF parts # <<>> /\ parts[1] = "api" THEN Tail(parts) ELSE parts
        segs == IF function # "" /\ function # "handle" THEN Append(kept, function) ELSE kept
    IN  IF segs = <<>> THEN "" ELSE "\n" \o Join(segs, ".")

(* C8: the logical path label is empty when the segment list (components   *)
(* without the extension, minus a leading api, plus the function unless it *)
(* is handle) is empty, and otherwise a line break and the segments joined *)
(* by dots.                                                                 *)
C8_PathLabel ==
    (probe.fn = "path" /\ probe.done) =>
        probe.res = ClaimedLabel(clean_filename(probe.filename), probe.function)

HighLabels == {"WARNING", "ERROR", "CRITICAL"}

\* the source-location lines the frames of a call can give
FrameLines(c) ==
    { clean_filename(f.filename) \o ":" \o ToString(f.lineno) :
        f \in {c.site} \cup (IF c.error.t = "none" THEN {}
                             ELSE {c.error.tb[i] : i \in 1..Len(c.error.tb)}) }

(* C9, as claimed: a message carries a source-location line if and only if *)
(* its label is WARNING, ERROR or CRITICAL, also when the label ERROR      *)
(* comes from an escalated info, important or request call.                *)
C9_ProvenanceByLabel ==
    InCall =>
        \A i \in 1..Len(Sends) :
            IF Label(Sends[i].text) \in HighLabels
            THEN SourceLine(Sends[i].text) \in FrameLines(call)
            ELSE SourceLine(Sends[i].text) = ""

(* C9, amended: provenance follows the entry point called, not the label   *)
(* after escalation: a message of a warning, error or critical call        *)
(* carries a source-location line filename:line, a message of an info,     *)
(* important or request call carries none, also when it is escalated to    *)
(* ERROR; so WARNING and CRITICAL messages always carry one and INFO,      *)
(* IMPORTANT and REQUEST messages never do.                                *)
C9_ProvenanceByEntryPoint ==
    InCall =>
        \A i \in 1..Len(Sends) :
            /\ IF call.method \in {"warning", "error", "critical"}
               THEN SourceLine(Sends[i].text) \in FrameLines(call)
               ELSE SourceLine(Sends[i].text) = ""
            /\ Label(Sends[i].text) \in {"WARNING", "CRITICAL"} =>
                  SourceLine(Sends[i].text) # ""
            /\ Label(Sends[i].text) \in {"INFO", "IMPORTANT", "REQUEST"} =>
                  SourceLine(Sends[i].text) = ""

C9_Witness ==
    /\ call.method \in {"info", "important", "request"}
    /\ Sends # <<>>
    /\ Label(Sends[1].text) = "ERROR"
    /\ SourceLine(Sends[1].text) = ""

\* the handler ids of a table
Ids(h) == {x.id : x \in h}

\* the sinks the class holds for a pair of files
SinksFor(st, log_file, err_file) ==
    { [id |-> st.log_sink_id.v, path |-> PathOf(log_file), level |-> "DEBUG"],
      [id |-> st.err_sink_id.v, path |-> PathOf(err_file), level |-> "WARNING"] }

\* in ops, every remove comes before every add
RemovesFirst(ops) ==
    \A i, j \in 1..Len(ops) : (ops[i][1] = "add" /\ ops[j][1] = "remove") => i > j

(* C10: after every construction the logger holds exactly two sinks, the   *)
(* low-severity one and the high-severity one of the class, registered for *)
(* the files of that construction; a construction with the configured pair *)
(* adds and removes nothing; one with another pair removes both old sinks  *)
(* before it adds the new ones.                                             *)
C10_SinksFollowLastConstruction ==
    [][ LET same == <<PyStr(PathOf(call'.log_file)), PyStr(PathOf(call'.err_file))>>
                        = <<sinkState.log_path, sinkState.err_path>>
            old == {sinkState.log_sink_id, sinkState.err_sink_id} \ {None}
        IN  call'.method = "__init__" =>
                /\ handlers' = SinksFor(sinkState', call'.log_file, call'.err_file)
                /\ Cardinality(handlers') = 2
                /\ same => /\ handlers' = handlers
                           /\ sinkState' = sinkState
                           /\ sinkOps' = <<>>
                /\ ~same => /\ \A id \in old : id.v \notin Ids(handlers')
                            /\ \A id \in old : \E i \in 1..Len(sinkOps') :
                                   sinkOps'[i] = <<"remove", id.v>>
                            /\ RemovesFirst(sinkOps')
                            /\ Cardinality({i \in 1..Len(sinkOps') : sinkOps'[i][1] = "add"}) = 2
      ]_vars

C10_Witness ==
    /\ call.method = "__init__"
    /\ sinkState.log_sink_id = PyInt(3)
    /\ sinkOps = << <<"remove", 1>>, <<"remove", 2>>, <<"add", 3>>, <<"add", 4>> >>
    /\ Cardinality(handlers) = 2

====
